---------------------------- MODULE Spec2Model ----------------------------
(***************************************************************************)
(* The error taxonomy of cli/src/util/errors.rs: the leaf error types and  *)
(* their Display renderings, the WrappedError adapter (wrap, wrapdbg, the  *)
(* reqwest conversion), StatusError::from_res, the CodeError enum and the  *)
(* AnyError umbrella generated by makeAnyError!.                           *)
(*                                                                         *)
(* A Rust String is modelled as a sequence of text pieces: a piece is      *)
(* either one character of a caller-supplied string or one literal piece   *)
(* of a format string.  format!/write! is concatenation (\o) of the        *)
(* pieces in the order of the format string.                               *)
(***************************************************************************)
EXTENDS Integers, Sequences, FiniteSets, TLC

\* ------------------------------------------------------------------ bounds
\* Longest caller-supplied string.
MaxStrLen == 1
\* Most command-line arguments after the program name.
MaxArgs == 2
\* Most nested applications of wrap / wrapdbg.
MaxWraps == 2

\* ------------------------------------------------------------------ text
Alphabet == {"a", "b"}

RECURSIVE SeqsUpTo(_, _)
SeqsUpTo(S, n) ==
  IF n = 0 THEN {<<>>}
  ELSE LET shorter == SeqsUpTo(S, n - 1)
       IN  shorter \cup {Append(s, c) : s \in shorter, c \in S}

\* The caller-supplied strings.
Strs == SeqsUpTo(Alphabet, MaxStrLen)

\* One literal piece of a format string.
Lit(s) == <<s>>

\* The character U+0060, which a TLA+ string cannot hold.
Backtick == <<"<backtick>">>

\* Option<T>: <<>> is None, <<v>> is Some(v).
None == <<>>
Some(v) == <<v>>
IsSome(o) == o # <<>>
UnwrapOr(o, d) == IF o = <<>> THEN d ELSE o[1]

\* [String]::join(sep)
RECURSIVE Join(_, _)
Join(parts, sep) ==
  IF parts = <<>> THEN <<>>
  ELSE IF Len(parts) = 1 THEN parts[1]
  ELSE parts[1] \o sep \o Join(Tail(parts), sep)

\* Iterator::skip(n)
Skip(s, n) == IF Len(s) <= n THEN <<>> ELSE SubSeq(s, n + 1, Len(s))

\* Display of an unsigned integer: decimal digits, most significant first.
Digit(d) == <<"0", "1", "2", "3", "4", "5", "6", "7", "8", "9">>[d + 1]
RECURSIVE UIntFmt(_)
UIntFmt(n) == IF n < 10 THEN <<Digit(n)>> ELSE UIntFmt(n \div 10) \o <<Digit(n % 10)>>
\* Display of a signed integer.
IntFmt(n) == IF n < 0 THEN <<"-">> \o UIntFmt(0 - n) ELSE UIntFmt(n)

\* Debug of a String: the text between double quotes (the strings of the
\* model hold no character that Debug escapes).
StrDebug(s) == <<"\"">> \o s \o <<"\"">>

\* ------------------------------------------------------- crate::constants
APPLICATION_NAME == Lit("<APPLICATION_NAME>")
QUALITYLESS_PRODUCT_NAME == Lit("<QUALITYLESS_PRODUCT_NAME>")
CONTROL_PORT == Lit("<CONTROL_PORT>")
\* DOCUMENTATION_URL: Option<&'static str>, fixed when the crate is built.
DocumentationUrls == {None, Some(Lit("https://docs.example"))}

\* ----------------------------------------------------- process environment
\* WSL_DISTRO_NAME: not set, set to valid Unicode, or set to bytes that are not
\* valid Unicode (std::env::var is Ok only in the second case).
WslStates == {"unset", "unicode", "not_unicode"}
EnvVarIsOk(w) == w = "unicode"

ProgName == Lit("code")
ExePaths == {Lit("C:\\code.exe")}
\* std::env::args(): the program name, then the arguments.
ArgStrs == {<<"a">>, <<"b">>}
ArgLists == {<<ProgName>> \o a : a \in SeqsUpTo(ArgStrs, MaxArgs)}

Envs ==
  [wsl : WslStates,
   exe : {None} \cup {Some(p) : p \in ExePaths},
   args : ArgLists,
   docs : DocumentationUrls]

\* ------------------------------------------------- foreign failure values
\* std::io::Error of a bare ErrorKind; its Debug is Kind(<kind>).
IoErrors == [type : {"io::Error"}, kind : {"NotFound", "PermissionDenied"}]
IoErrorDebug(e) == Lit("Kind(") \o Lit(e.kind) \o Lit(")")

\* rmp_serde::decode::Error, unit-like cases; Debug is the case's name.
DecodeErrors == {[case |-> "DepthLimitExceeded"]}
DecodeErrorDebug(e) == Lit(e.case)

\* rpc::ResponseError { code, message }, derived Debug.
ResponseErrors == [code : {-1, 7}, message : Strs]
ResponseErrorDebug(r) ==
  Lit("ResponseError { code: ") \o IntFmt(r.code) \o Lit(", message: ")
    \o StrDebug(r.message) \o Lit(" }")

\* reqwest::Error: the URL it carries, if any, and its own Display text.
Urls == {Lit("https://example.com"), Lit("http://a.test/") \o Lit("b")}
ReqwestTexts == {Lit("error sending request"), Lit("error decoding response body")}
ReqwestErrors == [type : {"reqwest::Error"}, url : {None} \cup {Some(u) : u \in Urls},
                  text : ReqwestTexts]
ReqwestErrorFmt(e) == e.text

\* ------------------------------------------------------------ leaf types
\* pub struct X(); and pub struct X(pub String);
Unit(t) == [type |-> t]
Tuple1(t, s) == [type |-> t, f0 |-> s]

UnitTypes ==
  {"MissingEntrypointError", "NoHomeForLauncherError", "MismatchedLaunchModeError",
   "NoAttachedServerError", "RefreshTokenNotAvailableError", "InvalidRequestedVersion",
   "UserCancelledInstallation", "CannotForwardControlPort", "ServerHasClosed",
   "ServiceAlreadyRegistered", "MissingHomeDirectory"}

StringTypes ==
  {"MissingLegalConsent", "MismatchConnectionToken", "InvalidServerExtensionError",
   "DevTunnelError", "SetupError", "InvalidTunnelName", "TunnelHostFailed",
   "ExtensionInstallFailed", "NoInstallInUserProvidedPath", "UpdatesNotConfigured",
   "WindowsNeedsElevation", "InvalidRpcDataError", "CorruptDownload",
   "DbusConnectFailedError"}

WrappedErrors == [type : {"WrappedError"}, message : Strs, original : Strs]

StatusCodes == {100, 404, 599}
StatusErrors == [type : {"StatusError"}, url : Urls, status_code : StatusCodes, body : Strs]

TunnelCreationFaileds == [type : {"TunnelCreationFailed"}, f0 : Strs, f1 : Strs]

OAuthErrors ==
  [type : {"OAuthError"}, error : Strs,
   error_description : {None} \cup {Some(d) : d \in Strs}]

no_url == Tuple1("UpdatesNotConfigured", Lit("no service url"))

\* ---- Display of the leaf types
\* Fault variant: the two fields written in the other order.
WrappedErrorFmtSwapped(e) == e.original \o Lit(": ") \o e.message
WrappedErrorFmt(e) == e.message \o Lit(": ") \o e.original

\* Fault variant: the status code and the body written in the other order.
StatusErrorFmtSwapped(e) ==
  Lit("error requesting ") \o e.url \o Lit(": ") \o e.body
    \o Lit(" ") \o UIntFmt(e.status_code)
StatusErrorFmt(e) ==
  Lit("error requesting ") \o e.url \o Lit(": ") \o UIntFmt(e.status_code)
    \o Lit(" ") \o e.body

MissingLegalConsentFmt(e) == e.f0
MismatchConnectionTokenFmt(e) == e.f0
InvalidServerExtensionErrorFmt(e) == Lit("invalid server extension '") \o e.f0 \o Lit("'")
DevTunnelErrorFmt(e) == Lit("could not open tunnel: ") \o e.f0
MissingEntrypointErrorFmt(e) ==
  Lit("Missing entrypoints in server download. Most likely this is a corrupted download. Please retry")

SetupErrorFmt(e, env) ==
  UnwrapOr(env.docs, Lit("<docs>")) \o Lit("\n\nMore info at ") \o e.f0
    \o Lit("/remote/linux")

NoHomeForLauncherErrorFmt(e) ==
  (Lit("No $HOME variable was found in your environment. Either set it, or specify a ") \o Backtick \o Lit("--data-dir") \o Backtick \o Lit(" manually when invoking the launcher."))
InvalidTunnelNameFmt(e) == e.f0
TunnelCreationFailedFmt(e) ==
  Lit("Could not create tunnel with name: ") \o e.f0 \o Lit("\nReason: ") \o e.f1
TunnelHostFailedFmt(e) == e.f0
ExtensionInstallFailedFmt(e) == Lit("Extension install failed: ") \o e.f0
MismatchedLaunchModeErrorFmt(e) ==
  Lit("A server is already running, but it was not launched in the same listening mode (port vs. socket) as this request")
NoAttachedServerErrorFmt(e) == Lit("No server is running")
RefreshTokenNotAvailableErrorFmt(e) ==
  Lit("Refresh token not available, authentication is required")
NoInstallInUserProvidedPathFmt(e) ==
  Lit("No ") \o QUALITYLESS_PRODUCT_NAME \o Lit(" installation could be found in ")
    \o e.f0 \o (Lit(". You can run ") \o Backtick) \o APPLICATION_NAME
    \o (Lit(" --use-quality=stable") \o Backtick \o Lit(" to switch to the latest stable version of "))
    \o QUALITYLESS_PRODUCT_NAME \o Lit(".")
InvalidRequestedVersionFmt(e) ==
  Lit("The reqested version is invalid, expected one of 'stable', 'insiders', version number (x.y.z), or absolute path.")
UserCancelledInstallationFmt(e) == Lit("Installation aborted.")
CannotForwardControlPortFmt(e) ==
  Lit("Cannot forward or unforward port ") \o CONTROL_PORT \o Lit(".")
ServerHasClosedFmt(e) == Lit("Request cancelled because the server has closed")
UpdatesNotConfiguredFmt(e) == Lit("Update service is not configured: ") \o e.f0
ServiceAlreadyRegisteredFmt(e) ==
  (Lit("Already registered the service. Run ") \o Backtick) \o APPLICATION_NAME
    \o (Lit(" tunnel service uninstall") \o Backtick \o Lit(" to unregister it first"))

\* The lines WindowsNeedsElevation writes before its third step.
ElevationHead(e) ==
  e.f0 \o Lit("\n") \o Lit("\n")
    \o Lit("You may need to run this command as an administrator:") \o Lit("\n")
    \o Lit(" 1. Open the start menu and search for Powershell") \o Lit("\n")
    \o Lit(" 2. Right click and 'Run as administrator'") \o Lit("\n")
\* " 3. Run &'{}' '{}'", its quotes and spaces kept as single characters.
Quote == <<"'">>
Space == <<" ">>
RunSameCommandAgain == Lit("Run the same command again")
\* Fault variant: the arguments joined by spaces inside one pair of quotes.
WindowsNeedsElevationFmtUnquoted(e, env) ==
  ElevationHead(e)
    \o (IF IsSome(env.exe)
        THEN Lit(" 3. ") \o Lit("Run &") \o Quote \o env.exe[1] \o Quote \o Space
               \o Quote \o Join(Skip(env.args, 1), Space) \o Quote
               \o Lit("\n")
        ELSE Lit(" 3. ") \o RunSameCommandAgain \o Lit("\n"))
WindowsNeedsElevationFmt(e, env) ==
  ElevationHead(e)
    \o (IF IsSome(env.exe)
        THEN Lit(" 3. ") \o Lit("Run &") \o Quote \o env.exe[1] \o Quote \o Space
               \o Quote \o Join(Skip(env.args, 1), Quote \o Space \o Quote) \o Quote
               \o Lit("\n")
        ELSE Lit(" 3. ") \o RunSameCommandAgain \o Lit("\n"))

InvalidRpcDataErrorFmt(e) == Lit("parse error: ") \o e.f0
CorruptDownloadFmt(e) ==
  Lit("Error updating the ") \o QUALITYLESS_PRODUCT_NAME \o Lit(" CLI: ") \o e.f0
MissingHomeDirectoryFmt(e) ==
  Lit("Could not find your home directory. Please ensure this command is running in the context of an normal user.")

\* Fault variant: {:?} of the Option in place of as_deref().unwrap_or("").
OAuthErrorFmtDebug(e) ==
  Lit("Error getting authorization: ") \o e.error \o Lit(" ")
    \o (IF e.error_description = None THEN Lit("None")
        ELSE Lit("Some(") \o StrDebug(e.error_description[1]) \o Lit(")"))
OAuthErrorFmt(e) ==
  Lit("Error getting authorization: ") \o e.error \o Lit(" ")
    \o UnwrapOr(e.error_description, <<>>)

DbusBase ==
  Lit("Error creating dbus session. This command uses systemd for managing services, you should check that systemd is installed and under your user.")
DbusWslGuidance ==
  Lit("\n\nTo enable systemd on WSL, check out: https://devblogs.microsoft.com/commandline/systemd-support-is-now-available-in-wsl/.\n\n")
DbusRemediation ==
  (Lit("If running ") \o Backtick \o Lit("systemctl status") \o Backtick \o Lit(" works, systemd is ok, but your session dbus may not be. You might need to:\n\n- Install the ") \o Backtick \o Lit("dbus-user-session") \o Backtick \o Lit(" package, and reboot if it was not installed\n- Start the user dbus session with ") \o Backtick \o Lit("systemctl --user enable dbus --now") \o Backtick \o Lit(".\n\nThe error encountered was: "))
\* Fault variant: under WSL the guidance is written in place of the remediation.
DbusConnectFailedErrorFmtEither(e, env) ==
  DbusBase
    \o (IF EnvVarIsOk(env.wsl) THEN DbusWslGuidance ELSE DbusRemediation)
    \o e.f0 \o Lit("\n")
DbusConnectFailedErrorFmt(e, env) ==
  DbusBase
    \o (IF EnvVarIsOk(env.wsl) THEN DbusWslGuidance ELSE <<>>)
    \o DbusRemediation \o e.f0 \o Lit("\n")

\* ---------------------------------------------------------------- CodeError
\* The tags that carry a std::io::Error (AppLockFailed: #[cfg(windows)]).
IoTags ==
  {"AsyncPipeFailed", "AsyncPipeListenerFailed", "SingletonLockfileOpenFailed",
   "AppLockFailed", "ProcessSpawnFailed", "ProcessSpawnHandshakeFailed"}
\* The tags without fields.
PlainTags ==
  {"NoRunningTunnel", "PortForwardingNotAvailable", "ServerAuthRequired",
   "AuthChallengeNotIssued", "AuthChallengeBadToken", "AuthMismatch", "KeyringTimeout"}
Pids == {0, 2147483647}
ExitCodes == {-1, 1}
StaticStrs == {Lit("docker"), Lit("checksum mismatch")}

\* The values of the enum on a Windows target, where every tag exists; the
\* other targets have these without AppAlreadyLocked and AppLockFailed.
CodeErrors ==
  [type : {"CodeError"}, tag : IoTags, io : IoErrors]
    \cup [type : {"CodeError"}, tag : {"SingletonLockfileReadFailed"}, decode : DecodeErrors]
    \cup [type : {"CodeError"}, tag : {"SingletonLockedProcessExited"}, pid : Pids]
    \cup [type : {"CodeError"}, tag : PlainTags]
    \cup [type : {"CodeError"}, tag : {"TunnelRpcCallFailed"}, res : ResponseErrors]
    \cup [type : {"CodeError"}, tag : {"AppAlreadyLocked", "UnsupportedPlatform"}, s : Strs]
    \cup [type : {"CodeError"}, tag : {"CommandFailed"}, command : Strs, code : ExitCodes,
          output : Strs]
    \cup [type : {"CodeError"}, tag : {"PrerequisitesFailed"}, name : StaticStrs,
          bullets : Strs]
    \cup [type : {"CodeError"}, tag : {"CorruptDownload"}, reason : StaticStrs]

CodeErrorTags ==
  IoTags \cup PlainTags
    \cup {"SingletonLockfileReadFailed", "SingletonLockedProcessExited",
          "TunnelRpcCallFailed", "AppAlreadyLocked", "UnsupportedPlatform",
          "CommandFailed", "PrerequisitesFailed", "CorruptDownload"}

\* Fault variant: the text of AuthChallengeBadToken given to AuthMismatch too.
AuthMismatchTextDuplicate == Lit("challenge token is invalid")

\* The #[error("...")] text of each tag (thiserror's Display).
AuthMismatchText == Lit("unauthorized client refused")
CodeErrorFmt(e) ==
  CASE e.tag = "AsyncPipeFailed" ->
         Lit("could not connect to socket/pipe: ") \o IoErrorDebug(e.io)
    [] e.tag = "AsyncPipeListenerFailed" ->
         Lit("could not listen on socket/pipe: ") \o IoErrorDebug(e.io)
    [] e.tag = "SingletonLockfileOpenFailed" ->
         Lit("could not create singleton lock file: ") \o IoErrorDebug(e.io)
    [] e.tag = "SingletonLockfileReadFailed" ->
         Lit("could not read singleton lock file: ") \o DecodeErrorDebug(e.decode)
    [] e.tag = "SingletonLockedProcessExited" ->
         Lit("the process holding the singleton lock file (pid=") \o UIntFmt(e.pid)
           \o Lit(") exited")
    [] e.tag = "NoRunningTunnel" -> Lit("no tunnel process is currently running")
    [] e.tag = "TunnelRpcCallFailed" ->
         Lit("rpc call failed: ") \o ResponseErrorDebug(e.res)
    [] e.tag = "AppAlreadyLocked" ->
         Lit("the windows app lock ") \o e.s \o Lit(" already exists")
    [] e.tag = "AppLockFailed" ->
         Lit("could not get windows app lock: ") \o IoErrorDebug(e.io)
    [] e.tag = "CommandFailed" ->
         Lit("failed to run command \"") \o e.command \o Lit("\" (code ")
           \o IntFmt(e.code) \o Lit("): ") \o e.output
    [] e.tag = "UnsupportedPlatform" ->
         Lit("platform not currently supported: ") \o e.s
    [] e.tag = "PrerequisitesFailed" ->
         Lit("This machine not meet ") \o e.name
           \o Lit("'s prerequisites, expected either...: ") \o e.bullets
    [] e.tag = "ProcessSpawnFailed" ->
         Lit("failed to spawn process: ") \o IoErrorDebug(e.io)
    [] e.tag = "ProcessSpawnHandshakeFailed" ->
         Lit("failed to handshake spawned process: ") \o IoErrorDebug(e.io)
    [] e.tag = "CorruptDownload" ->
         Lit("download appears corrupted, please retry (") \o e.reason \o Lit(")")
    [] e.tag = "PortForwardingNotAvailable" ->
         Lit("port forwarding is not available in this context")
    [] e.tag = "ServerAuthRequired" -> Lit("'auth' call required")
    [] e.tag = "AuthChallengeNotIssued" -> Lit("challenge not yet issued")
    [] e.tag = "AuthChallengeBadToken" -> Lit("challenge token is invalid")
    [] e.tag = "AuthMismatch" -> AuthMismatchText
    [] e.tag = "KeyringTimeout" -> Lit("keyring communication timed out after 5s")

\* ------------------------------------------------------------- the values
\* The types listed in makeAnyError!(...).
AnyErrorCases == UnitTypes \cup StringTypes
  \cup {"StatusError", "WrappedError", "TunnelCreationFailed", "OAuthError", "CodeError"}

LeafValues ==
  {Unit(t) : t \in UnitTypes}
    \cup {Tuple1(t, s) : t \in StringTypes, s \in Strs}
    \cup {no_url}
    \cup StatusErrors \cup WrappedErrors \cup TunnelCreationFaileds
    \cup OAuthErrors \cup CodeErrors

\* <T as Display>::fmt: the impl the compiler selects for a value's type.
Display(v, env) ==
  CASE v.type = "MissingLegalConsent" -> MissingLegalConsentFmt(v)
    [] v.type = "MismatchConnectionToken" -> MismatchConnectionTokenFmt(v)
    [] v.type = "DevTunnelError" -> DevTunnelErrorFmt(v)
    [] v.type = "StatusError" -> StatusErrorFmt(v)
    [] v.type = "WrappedError" -> WrappedErrorFmt(v)
    [] v.type = "InvalidServerExtensionError" -> InvalidServerExtensionErrorFmt(v)
    [] v.type = "MissingEntrypointError" -> MissingEntrypointErrorFmt(v)
    [] v.type = "SetupError" -> SetupErrorFmt(v, env)
    [] v.type = "NoHomeForLauncherError" -> NoHomeForLauncherErrorFmt(v)
    [] v.type = "TunnelCreationFailed" -> TunnelCreationFailedFmt(v)
    [] v.type = "TunnelHostFailed" -> TunnelHostFailedFmt(v)
    [] v.type = "InvalidTunnelName" -> InvalidTunnelNameFmt(v)
    [] v.type = "ExtensionInstallFailed" -> ExtensionInstallFailedFmt(v)
    [] v.type = "MismatchedLaunchModeError" -> MismatchedLaunchModeErrorFmt(v)
    [] v.type = "NoAttachedServerError" -> NoAttachedServerErrorFmt(v)
    [] v.type = "RefreshTokenNotAvailableError" -> RefreshTokenNotAvailableErrorFmt(v)
    [] v.type = "NoInstallInUserProvidedPath" -> NoInstallInUserProvidedPathFmt(v)
    [] v.type = "UserCancelledInstallation" -> UserCancelledInstallationFmt(v)
    [] v.type = "InvalidRequestedVersion" -> InvalidRequestedVersionFmt(v)
    [] v.type = "CannotForwardControlPort" -> CannotForwardControlPortFmt(v)
    [] v.type = "ServerHasClosed" -> ServerHasClosedFmt(v)
    [] v.type = "ServiceAlreadyRegistered" -> ServiceAlreadyRegisteredFmt(v)
    [] v.type = "WindowsNeedsElevation" -> WindowsNeedsElevationFmt(v, env)
    [] v.type = "UpdatesNotConfigured" -> UpdatesNotConfiguredFmt(v)
    [] v.type = "CorruptDownload" -> CorruptDownloadFmt(v)
    [] v.type = "MissingHomeDirectory" -> MissingHomeDirectoryFmt(v)
    [] v.type = "OAuthError" -> OAuthErrorFmt(v)
    [] v.type = "InvalidRpcDataError" -> InvalidRpcDataErrorFmt(v)
    [] v.type = "CodeError" -> CodeErrorFmt(v)
    [] v.type = "DbusConnectFailedError" -> DbusConnectFailedErrorFmt(v, env)
    [] v.type = "reqwest::Error" -> ReqwestErrorFmt(v)

\* ----------------------------------------------------------------- AnyError
\* impl From<$e> for AnyError: AnyError::$e(e).
AnyErrorFrom(v) == [case |-> v.type, inner |-> v]

\* Fault variant: the case's name written before the contained value.
AnyErrorFmtPrefixed(a, env) == Lit(a.case) \o Lit(": ") \o Display(a.inner, env)

\* impl Display for AnyError: one arm per listed type, each delegating to the
\* contained value's fmt.
AnyErrorFmt(a, env) ==
  CASE a.case = "MissingLegalConsent" -> MissingLegalConsentFmt(a.inner)
    [] a.case = "MismatchConnectionToken" -> MismatchConnectionTokenFmt(a.inner)
    [] a.case = "DevTunnelError" -> DevTunnelErrorFmt(a.inner)
    [] a.case = "StatusError" -> StatusErrorFmt(a.inner)
    [] a.case = "WrappedError" -> WrappedErrorFmt(a.inner)
    [] a.case = "InvalidServerExtensionError" -> InvalidServerExtensionErrorFmt(a.inner)
    [] a.case = "MissingEntrypointError" -> MissingEntrypointErrorFmt(a.inner)
    [] a.case = "SetupError" -> SetupErrorFmt(a.inner, env)
    [] a.case = "NoHomeForLauncherError" -> NoHomeForLauncherErrorFmt(a.inner)
    [] a.case = "TunnelCreationFailed" -> TunnelCreationFailedFmt(a.inner)
    [] a.case = "TunnelHostFailed" -> TunnelHostFailedFmt(a.inner)
    [] a.case = "InvalidTunnelName" -> InvalidTunnelNameFmt(a.inner)
    [] a.case = "ExtensionInstallFailed" -> ExtensionInstallFailedFmt(a.inner)
    [] a.case = "MismatchedLaunchModeError" -> MismatchedLaunchModeErrorFmt(a.inner)
    [] a.case = "NoAttachedServerError" -> NoAttachedServerErrorFmt(a.inner)
    [] a.case = "RefreshTokenNotAvailableError" ->
         RefreshTokenNotAvailableErrorFmt(a.inner)
    [] a.case = "NoInstallInUserProvidedPath" -> NoInstallInUserProvidedPathFmt(a.inner)
    [] a.case = "UserCancelledInstallation" -> UserCancelledInstallationFmt(a.inner)
    [] a.case = "InvalidRequestedVersion" -> InvalidRequestedVersionFmt(a.inner)
    [] a.case = "CannotForwardControlPort" -> CannotForwardControlPortFmt(a.inner)
    [] a.case = "ServerHasClosed" -> ServerHasClosedFmt(a.inner)
    [] a.case = "ServiceAlreadyRegistered" -> ServiceAlreadyRegisteredFmt(a.inner)
    [] a.case = "WindowsNeedsElevation" -> WindowsNeedsElevationFmt(a.inner, env)
    [] a.case = "UpdatesNotConfigured" -> UpdatesNotConfiguredFmt(a.inner)
    [] a.case = "CorruptDownload" -> CorruptDownloadFmt(a.inner)
    [] a.case = "MissingHomeDirectory" -> MissingHomeDirectoryFmt(a.inner)
    [] a.case = "OAuthError" -> OAuthErrorFmt(a.inner)
    [] a.case = "InvalidRpcDataError" -> InvalidRpcDataErrorFmt(a.inner)
    [] a.case = "CodeError" -> CodeErrorFmt(a.inner)
    [] a.case = "DbusConnectFailedError" -> DbusConnectFailedErrorFmt(a.inner, env)

\* --------------------------------------------------------------- wrapping
\* Display of any value the model holds: an AnyError or a value of a leaf type.
Render(x, env) ==
  IF "case" \in DOMAIN x THEN AnyErrorFmt(x, env) ELSE Display(x, env)

\* The values that implement Display: all but std::io::Error, which the model
\* renders with {:?} only.
Displayable(x) == IF "case" \in DOMAIN x THEN TRUE ELSE x.type # "io::Error"

\* {:?} of the values wrapdbg is given.
Debug(x) == IoErrorDebug(x)

\* pub fn wrap<T: Display, S: Into<String>>(original: T, message: S)
wrap(original, message, env) ==
  [type |-> "WrappedError", message |-> message, original |-> Render(original, env)]

\* pub fn wrapdbg<T: Debug, S: Into<String>>(original: T, message: S)
wrapdbg(original, message) ==
  [type |-> "WrappedError", message |-> message, original |-> Debug(original)]

\* Fault variant: no placeholder for a missing URL.
WrappedErrorFromReqwestNoPlaceholder(e) ==
  [type |-> "WrappedError",
   message |-> Lit("error requesting ") \o UnwrapOr(e.url, <<>>),
   original |-> ReqwestErrorFmt(e)]

\* impl From<reqwest::Error> for WrappedError
WrappedErrorFromReqwest(e) ==
  [type |-> "WrappedError",
   message |-> Lit("error requesting ") \o UnwrapOr(e.url, Lit("<unknown>")),
   original |-> ReqwestErrorFmt(e)]

\* impl From<reqwest::Error> for AnyError
AnyErrorFromReqwest(e) == [case |-> "WrappedError", inner |-> WrappedErrorFromReqwest(e)]

\* ------------------------------------------------------------------ state
VARIABLES
  env,       \* the process environment and build configuration
  \* rendering a leaf value directly and through AnyError
  leaf,      \* the leaf error value of the run
  leafOut,   \* Some(text) once the leaf value itself was rendered
  leafEnv,   \* Some(environment) that rendering ran under
  any,       \* Some(AnyError) once the leaf value was converted (and moved)
  anyOut,    \* Some(text) once the AnyError was rendered
  anyEnv,    \* Some(environment) that rendering ran under
  \* wrapping
  original,  \* the value the first wrapping call is given
  wrapped,   \* Some(value) the calls so far produced
  calls,     \* the calls so far, innermost first: [op, message]
  wrapEnv,   \* Some(environment) the first call ran under
  wrapOut,   \* Some(text) once the wrapped value was rendered
  \* StatusError::from_res
  res,       \* the response from_res is given
  pc,        \* "start", "draining" (suspended in res.text().await), "done"
  status_code, \* the local status_code
  url,       \* the local url
  drained,   \* Some(outcome of res.text()): [ok, body] or [ok, err]
  result,    \* Some(return value): [ok, val]
  resultOut  \* Some(text) once the returned value was rendered

renderVars == <<leaf, leafOut, leafEnv, any, anyOut, anyEnv>>
wrapVars == <<original, wrapped, calls, wrapEnv, wrapOut>>
statusVars == <<res, pc, status_code, url, drained, result, resultOut>>
vars == <<env, renderVars, wrapVars, statusVars>>

\* A part of the state a specification does not use.
Unused == [type |-> "unused"]
RenderUnused ==
  /\ leaf = Unused /\ leafOut = None /\ leafEnv = None
  /\ any = None /\ anyOut = None /\ anyEnv = None
WrapUnused ==
  /\ original = Unused /\ wrapped = None /\ calls = <<>>
  /\ wrapEnv = None /\ wrapOut = None
StatusUnused ==
  /\ res = Unused /\ pc = "unused" /\ status_code = 0 /\ url = <<>>
  /\ drained = None /\ result = None /\ resultOut = None

\* WSL_DISTRO_NAME is set or removed between two calls.
SetEnvVar ==
  /\ \E w \in WslStates : w # env.wsl /\ env' = [env EXCEPT !.wsl = w]
  /\ UNCHANGED <<renderVars, wrapVars, statusVars>>

\* ------------------------------------- Spec: leaf values and the umbrella
Init ==
  /\ env \in Envs
  /\ leaf \in LeafValues
  /\ leafOut = None /\ leafEnv = None
  /\ any = None
  /\ anyOut = None /\ anyEnv = None
  /\ WrapUnused /\ StatusUnused

\* format!("{}", leaf): possible while the value has not been moved.
DisplayLeaf ==
  /\ any = None
  /\ leafOut' = Some(Display(leaf, env))
  /\ leafEnv' = Some(env)
  /\ UNCHANGED <<env, leaf, any, anyOut, anyEnv, wrapVars, statusVars>>

\* AnyError::from(leaf), as the ? operator and .into() call it.
IntoAnyError ==
  /\ any = None
  /\ any' = Some(AnyErrorFrom(leaf))
  /\ UNCHANGED <<env, leaf, leafOut, leafEnv, anyOut, anyEnv, wrapVars, statusVars>>

\* format!("{}", any)
DisplayAny ==
  /\ any # None
  /\ anyOut' = Some(AnyErrorFmt(any[1], env))
  /\ anyEnv' = Some(env)
  /\ UNCHANGED <<env, leaf, leafOut, leafEnv, any, wrapVars, statusVars>>

Next == DisplayLeaf \/ IntoAnyError \/ DisplayAny \/ SetEnvVar

Spec == Init /\ [][Next]_vars

\* ------------------------------------------------- SpecWrap: the adapter
\* The environments that differ in WSL_DISTRO_NAME alone.
PlainEnvs == {e \in Envs : e.exe = None /\ e.args = <<ProgName>> /\ e.docs = None}

\* The values the wrapping calls start from.
WrapSources ==
  {Tuple1("DbusConnectFailedError", s) : s \in Strs}
    \cup {Tuple1("DevTunnelError", s) : s \in Strs}
    \cup {Unit("NoAttachedServerError")}
    \cup ReqwestErrors \cup IoErrors

InitWrap ==
  /\ env \in PlainEnvs
  /\ original \in WrapSources
  /\ wrapped = None /\ calls = <<>> /\ wrapEnv = None /\ wrapOut = None
  /\ RenderUnused /\ StatusUnused

\* The value the next call is given: the original, or what the calls so far made.
Current == IF wrapped = None THEN original ELSE wrapped[1]

Called(op, message) ==
  /\ calls' = Append(calls, [op |-> op, message |-> message])
  /\ wrapEnv' = IF wrapEnv = None THEN Some(env) ELSE wrapEnv
  /\ wrapOut' = None
  /\ UNCHANGED <<env, original, renderVars, statusVars>>

Wrap ==
  /\ Len(calls) < MaxWraps
  /\ Displayable(Current)
  /\ \E message \in Strs :
       /\ wrapped' = Some(wrap(Current, message, env))
       /\ Called("wrap", message)

WrapDbg ==
  /\ calls = <<>>
  /\ original.type = "io::Error"
  /\ \E message \in Strs :
       /\ wrapped' = Some(wrapdbg(original, message))
       /\ Called("wrapdbg", message)

\* WrappedError::from(e)
FromReqwest ==
  /\ calls = <<>>
  /\ original.type = "reqwest::Error"
  /\ wrapped' = Some(WrappedErrorFromReqwest(original))
  /\ Called("WrappedError::from", <<>>)

\* AnyError::from(e)
AnyFromReqwest ==
  /\ calls = <<>>
  /\ original.type = "reqwest::Error"
  /\ wrapped' = Some(AnyErrorFromReqwest(original))
  /\ Called("AnyError::from", <<>>)

\* format!("{}", wrapped)
DisplayWrapped ==
  /\ wrapped # None
  /\ wrapOut' = Some(Render(wrapped[1], env))
  /\ UNCHANGED <<env, original, wrapped, calls, wrapEnv, renderVars, statusVars>>

NextWrap == Wrap \/ WrapDbg \/ FromReqwest \/ AnyFromReqwest \/ DisplayWrapped \/ SetEnvVar

SpecWrap == InitWrap /\ [][NextWrap]_vars

\* --------------------------------------- SpecStatus: StatusError::from_res
\* reqwest::Response: what from_res reads of it before draining the body.
Responses == [type : {"reqwest::Response"}, status : StatusCodes, url : Urls]

\* Result<T, E>
Ok(v) == [ok |-> TRUE, val |-> v]
Err(e) == [ok |-> FALSE, val |-> e]

InitStatus ==
  /\ env \in PlainEnvs
  /\ res \in Responses
  /\ pc = "start" /\ status_code = 0 /\ url = <<>>
  /\ drained = None /\ result = None /\ resultOut = None
  /\ RenderUnused /\ WrapUnused

\* let status_code = res.status().as_u16(); let url = res.url().to_string();
\* then res.text() is called and the task suspends.
FromResCapture ==
  /\ pc = "start"
  /\ status_code' = res.status
  /\ url' = res.url
  /\ pc' = "draining"
  /\ UNCHANGED <<env, res, drained, result, resultOut, renderVars, wrapVars>>

\* The message the map_err closure formats.
DrainFailedMessage(code, u) ==
  Lit("failed to read response body on ") \o UIntFmt(code) \o Lit(" code from ") \o u

\* Fault variant: a failed drain taken as an empty body (unwrap_or_default).
FromResReturnSwallow(outcome, code, u, e) ==
  Ok([type |-> "StatusError", url |-> u, status_code |-> code,
      body |-> IF outcome.ok THEN outcome.val ELSE <<>>])

\* What from_res returns for an outcome of res.text().await: the closure of
\* map_err, the ? operator's AnyError::from, and the Ok(StatusError { .. }).
FromResReturn(outcome, code, u, e) ==
  IF outcome.ok
  THEN Ok([type |-> "StatusError", url |-> u, status_code |-> code, body |-> outcome.val])
  ELSE Err(AnyErrorFrom(wrap(outcome.val, DrainFailedMessage(code, u), e)))

\* The bodies a response drains to.
Bodies == Strs \cup {Lit("not found")}

\* res.text().await resolves to Ok(body).
DrainOk ==
  /\ pc = "draining"
  /\ \E body \in Bodies :
       /\ drained' = Some(Ok(body))
       /\ result' = Some(FromResReturn(Ok(body), status_code, url, env))
  /\ pc' = "done"
  /\ UNCHANGED <<env, res, status_code, url, resultOut, renderVars, wrapVars>>

\* res.text().await resolves to Err(e).
DrainErr ==
  /\ pc = "draining"
  /\ \E e \in ReqwestErrors :
       /\ drained' = Some(Err(e))
       /\ result' = Some(FromResReturn(Err(e), status_code, url, env))
  /\ pc' = "done"
  /\ UNCHANGED <<env, res, status_code, url, resultOut, renderVars, wrapVars>>

\* The caller renders what from_res returned.
DisplayResult ==
  /\ pc = "done"
  /\ resultOut' = Some(Render(result[1].val, env))
  /\ UNCHANGED <<env, res, pc, status_code, url, drained, result, renderVars, wrapVars>>

NextStatus == FromResCapture \/ DrainOk \/ DrainErr \/ DisplayResult \/ SetEnvVar

SpecStatus == InitStatus /\ [][NextStatus]_vars

\* ------------------------------------------------------------- properties
Contains(s, sub) ==
  \E i \in 0..(Len(s) - Len(sub)) : SubSeq(s, i + 1, i + Len(sub)) = sub
StartsWith(s, p) == Len(p) <= Len(s) /\ SubSeq(s, 1, Len(p)) = p
EndsWith(s, p) == Len(p) <= Len(s) /\ SubSeq(s, Len(s) - Len(p) + 1, Len(s)) = p

\* The decimal text of the status codes of the model.
StatusText(code) ==
  CASE code = 100 -> <<"1", "0", "0">>
    [] code = 404 -> <<"4", "0", "4">>
    [] code = 599 -> <<"5", "9", "9">>

\* The values of the model are of the 30 listed types, every one of them.
AllCasesCovered ==
  /\ Cardinality(AnyErrorCases) = 30
  /\ {v.type : v \in LeafValues} = AnyErrorCases

\* C1: for each type listed in makeAnyError! (30 of them), AnyError::from(v) is
\* the case named after v's type and holds v, and rendering it under the
\* environment v itself was rendered under yields the same text.
AnyErrorRoundTrip ==
  /\ AllCasesCovered
  /\ any # None =>
       /\ any[1].case = leaf.type
       /\ any[1].case \in AnyErrorCases
       /\ any[1].inner = leaf
  /\ (leafOut # None /\ anyOut # None /\ leafEnv = anyEnv) => anyOut = leafOut

AnyErrorRoundTripWitness ==
  /\ leaf = Tuple1("DbusConnectFailedError", <<"a">>)
  /\ leafOut # None /\ anyOut # None
  /\ leafEnv = anyEnv /\ anyEnv[1].wsl = "unicode"
  /\ any[1].case = "DbusConnectFailedError"

\* C2: wrap(x, m) renders as "m: render(x)" and wrap(wrap(x, a), b) renders as
\* "b: a: render(x)", render(x) being x's text when the first wrap ran.
WrapComposes ==
  (wrapOut # None /\ \A i \in 1..Len(calls) : calls[i].op = "wrap") =>
    LET x == Render(original, wrapEnv[1]) IN
      /\ Len(calls) = 1 => wrapOut[1] = calls[1].message \o <<": ">> \o x
      /\ Len(calls) = 2 =>
           wrapOut[1] = calls[2].message \o <<": ">> \o calls[1].message \o <<": ">> \o x

WrapComposesWitness ==
  /\ original = Tuple1("DbusConnectFailedError", <<"a">>)
  /\ Len(calls) = 2 /\ calls[1] = [op |-> "wrap", message |-> <<"a">>]
  /\ calls[2] = [op |-> "wrap", message |-> <<"b">>]
  /\ wrapEnv[1].wsl = "unicode" /\ env.wsl = "unset"
  /\ wrapOut # None

\* C3: WrappedError::from(e) of a reqwest::Error has the message
\* "error requesting {url}", "error requesting <unknown>" without a URL, and e's
\* own text as original; AnyError::from(e) is the WrappedError case holding it.
ReqwestConversion ==
  LET expected ==
        [type |-> "WrappedError",
         message |-> IF original.url = None
                     THEN <<"error requesting ", "<unknown>">>
                     ELSE <<"error requesting ">> \o original.url[1],
         original |-> original.text]
  IN /\ calls = <<[op |-> "WrappedError::from", message |-> <<>>]>> =>
          /\ wrapped[1] = expected
          /\ original.url = Some(<<"https://example.com">>) =>
               wrapped[1].message = <<"error requesting ", "https://example.com">>
     /\ calls = <<[op |-> "AnyError::from", message |-> <<>>]>> =>
          wrapped[1] = [case |-> "WrappedError", inner |-> expected]

ReqwestConversionWitness ==
  /\ calls = <<[op |-> "AnyError::from", message |-> <<>>]>>
  /\ original.url = None
  /\ wrapped[1].inner.message = <<"error requesting ", "<unknown>">>

\* C4: when the body drain fails, from_res returns Err of the WrappedError case
\* with the message "failed to read response body on {code} code from {url}" for
\* the response's status code and URL and the drain failure's text as original.
FromResDrainFailure ==
  (pc = "done" /\ ~drained[1].ok) =>
    /\ ~result[1].ok
    /\ result[1].val =
         [case |-> "WrappedError",
          inner |-> [type |-> "WrappedError",
                     message |-> <<"failed to read response body on ">>
                                   \o StatusText(res.status) \o <<" code from ">> \o res.url,
                     original |-> drained[1].val.text]]

FromResDrainFailureWitness ==
  /\ pc = "done" /\ ~drained[1].ok /\ ~result[1].ok
  /\ res.status = 404 /\ res.url = <<"https://example.com">>
  /\ resultOut # None

\* C5: when the body drains, from_res returns Ok of a StatusError holding the
\* response's URL and status code and the body, which renders as
\* "error requesting {url}: {code} {body}".
FromResSuccess ==
  (pc = "done" /\ drained[1].ok) =>
    /\ result[1] = Ok([type |-> "StatusError", url |-> res.url,
                       status_code |-> res.status, body |-> drained[1].val])
    /\ resultOut # None =>
         resultOut[1] = <<"error requesting ">> \o res.url \o <<": ">>
                          \o StatusText(res.status) \o <<" ">> \o drained[1].val

FromResSuccessWitness ==
  /\ pc = "done" /\ res.status = 404 /\ drained = Some(Ok(<<"not found">>))
  /\ resultOut = Some(<<"error requesting ", "https://example.com", ": ",
                        "4", "0", "4", " ", "not found">>)

\* Each argument between quotes, the arguments separated by one space.
RECURSIVE QuotedArgs(_)
QuotedArgs(a) ==
  IF a = <<>> THEN <<>>
  ELSE IF Len(a) = 1 THEN <<"'">> \o a[1] \o <<"'">>
  ELSE <<"'">> \o a[1] \o <<"'", " ">> \o QuotedArgs(Tail(a))

\* The texts the value of the run was rendered to, each with the environment
\* the rendering ran under.
Rendered ==
  (IF leafOut = None THEN {} ELSE {[text |-> leafOut[1], env |-> leafEnv[1]]})
    \cup (IF anyOut = None THEN {} ELSE {[text |-> anyOut[1], env |-> anyEnv[1]]})

\* C6: WindowsNeedsElevation renders, when current_exe() is Ok, with the
\* executable path and with the arguments after the program name, each quoted
\* and joined by spaces, and without the fallback sentence; otherwise with the
\* fallback sentence and without the command.
ElevationRendering ==
  leaf.type = "WindowsNeedsElevation" =>
    \A r \in Rendered :
      IF r.env.exe # None
      THEN /\ Contains(r.text, <<"Run &", "'">> \o r.env.exe[1] \o <<"'">>)
           /\ Contains(r.text, QuotedArgs(Skip(r.env.args, 1)))
           /\ ~Contains(r.text, <<"Run the same command again">>)
      ELSE /\ Contains(r.text, <<"Run the same command again">>)
           /\ ~Contains(r.text, <<"Run &">>)

ElevationRenderingWitness ==
  /\ leaf.type = "WindowsNeedsElevation"
  /\ leafOut # None
  /\ leafEnv[1].exe # None
  /\ leafEnv[1].args = <<ProgName, <<"a">>, <<"b">>>>
  /\ Contains(leafOut[1], <<"'", "a", "'", " ", "'", "b", "'">>)

\* C7: for DbusConnectFailedError(t), a rendering with WSL_DISTRO_NAME set
\* differs from one with it unset by the inserted guidance block alone: every
\* rendering begins with the base message and ends with the remediation text, t
\* and a newline.
DbusGuidanceOnly ==
  leaf.type = "DbusConnectFailedError" =>
    /\ \A r \in Rendered :
         /\ StartsWith(r.text, DbusBase)
         /\ EndsWith(r.text, DbusRemediation \o leaf.f0 \o <<"\n">>)
    /\ \A r0, r1 \in Rendered :
         (r0.env.wsl = "unset" /\ r1.env.wsl # "unset") =>
           LET inserted ==
                 DbusBase \o DbusWslGuidance \o Skip(r0.text, Len(DbusBase))
           IN /\ r1.text \in {r0.text, inserted}
              /\ r1.env.wsl = "unicode" => r1.text = inserted

DbusGuidanceOnlyWitness ==
  /\ leaf = Tuple1("DbusConnectFailedError", <<"a">>)
  /\ leafOut # None /\ leafEnv[1].wsl = "unset"
  /\ anyOut # None /\ anyEnv[1].wsl = "unicode"
  /\ Len(anyOut[1]) = Len(leafOut[1]) + 1

\* C8: OAuthError renders as the fixed lead, the error code, one space and the
\* description; without a description nothing follows the space.
OAuthRendering ==
  leaf.type = "OAuthError" =>
    \A r \in Rendered :
      /\ StartsWith(r.text, <<"Error getting authorization: ">> \o leaf.error \o <<" ">>)
      /\ IF leaf.error_description = None
         THEN Len(r.text) = Len(leaf.error) + 2
         ELSE /\ EndsWith(r.text, <<" ">> \o leaf.error_description[1])
              /\ Len(r.text) = Len(leaf.error) + 2 + Len(leaf.error_description[1])

OAuthRenderingWitness ==
  /\ leaf.type = "OAuthError" /\ leaf.error = <<"a">>
  /\ leaf.error_description = None
  /\ leafOut = Some(<<"Error getting authorization: ", "a", " ">>)

\* The tags whose values render to a text.
CodeErrorTextTags ==
  [text \in {CodeErrorFmt(o) : o \in CodeErrors} |->
     {o.tag : o \in {p \in CodeErrors : CodeErrorFmt(p) = text}}]

\* The texts of the four authentication tags and the two process tags.
FamilyTexts ==
  {[tag |-> o.tag, text |-> CodeErrorFmt(o)] :
     o \in {p \in CodeErrors :
              p.tag \in {"ServerAuthRequired", "AuthChallengeNotIssued",
                         "AuthChallengeBadToken", "AuthMismatch",
                         "ProcessSpawnFailed", "ProcessSpawnHandshakeFailed"}}}

\* C9: every CodeError value renders to a text that is not empty, is no
\* "unknown error" placeholder and is the text of no value of another tag; the
\* authentication tags and the process tags render pairwise distinct texts.
CodeErrorTexts ==
  leaf.type = "CodeError" =>
    /\ leaf.tag \in CodeErrorTags
    /\ \A r \in Rendered :
         /\ r.text # <<>>
         /\ ~Contains(r.text, <<"unknown error">>)
         /\ CodeErrorTextTags[r.text] = {leaf.tag}
    /\ \A f, g \in FamilyTexts : f.tag # g.tag => f.text # g.text

CodeErrorTextsWitness ==
  /\ leaf = [type |-> "CodeError", tag |-> "AuthMismatch"]
  /\ leafOut = Some(<<"unauthorized client refused">>)
  /\ anyOut = leafOut

\* C10: SetupError(m) renders as m, a blank line and "More info at
\* {docs}/remote/linux", {docs} being DOCUMENTATION_URL or "<docs>".
SetupErrorMessageFirst ==
  leaf.type = "SetupError" =>
    \A r \in Rendered :
      r.text = leaf.f0 \o <<"\n\nMore info at ">>
                 \o (IF r.env.docs = None THEN <<"<docs>">> ELSE r.env.docs[1])
                 \o <<"/remote/linux">>

=============================================================================
